---- MODULE Spec2Model ----
(***************************************************************************)
(* Role-based business dashboard: the relational store with its row-level  *)
(* security policies (the schema migration), the AuthProvider (startup,    *)
(* login, logout) and the Dashboard's choice of the primary role.          *)
(*                                                                         *)
(* Two specifications share the variables:                                 *)
(*   Spec       the AuthProvider and the Dashboard against the store       *)
(*   SpecStore  statements against the store under its row-level policies  *)
(***************************************************************************)
EXTENDS Integers, Sequences, FiniteSets, TLC

VARIABLES
    users,          \* table users: set of rows
    user_roles,     \* table user_roles: set of rows
    clients,        \* table clients
    proposals,      \* table proposals
    sales,          \* table sales
    activity_logs,  \* table activity_logs, in insertion order
    response,       \* the store's response to the last statement (SpecStore)
    conn,           \* the key the supabase client was created with
    storage,        \* localStorage: the string under the key 'user', if any
    app,            \* AuthProvider lifecycle: starting | running | crashed
    user,           \* AuthProvider state `user` (<<>> is null)
    loading,        \* AuthProvider state `loading`
    login,          \* the login call in flight, its locals and position
    logout,         \* the logout call in flight
    mounted,        \* what Dashboard renders for the session
    primaryRole,    \* Dashboard's primaryRole (<<>> while none is computed)
    issued,         \* queries issued by the mounted role dashboard
    location,       \* the router's current path
    authenticated,  \* the identity last verified by password (<<>> if none)
    fetch           \* the statistics fetch of a role dashboard (SpecFetch)

vars == <<users, user_roles, clients, proposals, sales, activity_logs, response,
          conn, storage, app, user, loading, login, logout, mounted,
          primaryRole, issued, location, authenticated, fetch>>

storeVars == <<users, user_roles, clients, proposals, sales, activity_logs>>
authVars == <<conn, storage, app, user, loading, login, logout, mounted,
              primaryRole, issued, location, authenticated, fetch>>

(***************************************************************************)
(* Values                                                                  *)
(***************************************************************************)
\* SQL NULL, JavaScript null/undefined of an optional column.
Null == "NULL"

\* An optional record: <<>> is null, <<x>> holds x.
None == <<>>
Some(x) == <<x>>

\* SQL `a = b`: never true when either side is NULL.
SqlEq(a, b) == a # Null /\ b # Null /\ a = b

\* Bounds of the model.
MaxUserRoles == 5
MaxClients == 5
MaxProposals == 5
MaxSales == 3
MaxNewLogs == 2

(***************************************************************************)
(* The role catalog and the seed data of the migration                     *)
(***************************************************************************)
RoleNames == {"Super Admin", "Company Admin", "Site Manager", "Commercial"}

\* roles.level by roles.name
RoleLevel(name) ==
    CASE name = "Super Admin" -> 1
      [] name = "Company Admin" -> 2
      [] name = "Site Manager" -> 3
      [] name = "Commercial" -> 4

\* bcrypt: the stored hash of a password, and bcrypt.compare.
Hash(pw) == <<"bcrypt", pw>>
BcryptCompare(pw, hash) == hash = Hash(pw)

UserRow(id, active) ==
    [id |-> id, email |-> id, password_hash |-> Hash("password123"),
     is_active |-> active]

\* The four seed users; the e-mail address stands for the row id.
SeedUsers ==
    { UserRow(e, TRUE) : e \in {"superadmin@example.com", "admin@example.com",
                                "amine@example.com", "soukaina@example.com"} }

\* A user registered after the migration, holding no assignment.
NewUser == "newuser@example.com"

UserIds == {u.id : u \in SeedUsers} \cup {NewUser}

UserRoleRow(id, u, r, c, s, a) ==
    [id |-> id, user_id |-> u, role_id |-> r, company_id |-> c, site_id |-> s,
     is_active |-> a]

SeedUserRoles ==
    { UserRoleRow("ur1", "superadmin@example.com", "Super Admin", Null, Null, TRUE),
      UserRoleRow("ur2", "admin@example.com", "Company Admin", "company1", Null, TRUE),
      UserRoleRow("ur3", "amine@example.com", "Site Manager", "company1", "site1", TRUE),
      UserRoleRow("ur4", "soukaina@example.com", "Commercial", "company1", "site1", TRUE) }

ClientRow(id, c, s, a) ==
    [id |-> id, company_id |-> c, site_id |-> s, assigned_to |-> a]

SeedClients ==
    { ClientRow("client1", "company1", "site1", "soukaina@example.com"),
      ClientRow("client2", "company1", "site1", "soukaina@example.com"),
      ClientRow("client3", "company1", "site2", Null),
      ClientRow("client4", "company2", "site3", Null) }

ProposalRow(id, c, u, amt, st) ==
    [id |-> id, client_id |-> c, created_by |-> u, amount |-> amt, status |-> st]

SeedProposals ==
    { ProposalRow("proposal1", "client1", "soukaina@example.com", 150000, "closed"),
      ProposalRow("proposal2", "client2", "soukaina@example.com", 75000, "pending"),
      ProposalRow("proposal3", "client3", "amine@example.com", 200000, "draft"),
      ProposalRow("proposal4", "client4", "admin@example.com", 500000, "pending") }

\* commission is nullable: None for NULL, Some(n) for a number
SaleRow(id, p, u, amt, com) ==
    [id |-> id, proposal_id |-> p, closed_by |-> u, amount |-> amt, commission |-> com]

SeedSales ==
    { SaleRow("sale1", "proposal1", "soukaina@example.com", 150000, Some(15000)),
      SaleRow("sale2", "proposal2", "soukaina@example.com", 75000, Some(7500)) }

LogRow(u, action, rtype) ==
    [user_id |-> u, action |-> action, resource_type |-> rtype]

SeedLogs ==
    << LogRow("superadmin@example.com", "login", "auth"),
       LogRow("admin@example.com", "login", "auth"),
       LogRow("amine@example.com", "login", "auth"),
       LogRow("soukaina@example.com", "login", "auth"),
       LogRow("soukaina@example.com", "create", "client"),
       LogRow("soukaina@example.com", "create", "proposal"),
       LogRow("soukaina@example.com", "close", "sale"),
       LogRow("amine@example.com", "create", "proposal"),
       LogRow("admin@example.com", "create", "proposal"),
       LogRow("superadmin@example.com", "create", "company") >>

(***************************************************************************)
(* Row-level security policies. uid is auth.uid() of the caller.           *)
(***************************************************************************)
\* EXISTS (... r.name = 'Super Admin' AND ur.is_active = true)
IsSuperAdminMutant(uid) ==
    \E ur \in user_roles :
        /\ SqlEq(ur.user_id, uid)
        /\ ur.role_id = "Super Admin"

IsSuperAdmin(uid) ==
    \E ur \in user_roles :
        /\ SqlEq(ur.user_id, uid)
        /\ ur.role_id = "Super Admin"
        /\ ur.is_active

\* "Users can view their own data", "Super admins can manage all users"
UsersSelect(uid, u) == SqlEq(uid, u.id) \/ IsSuperAdmin(uid)

\* "Users can view their own roles", "Super admins can manage all user roles"
UserRolesSelect(uid, ur) == SqlEq(ur.user_id, uid) \/ IsSuperAdmin(uid)

UserRolesWriteMutant(uid) == uid # Null

\* "Super admins can manage all user roles" (FOR ALL): the only write policy
UserRolesWrite(uid) == IsSuperAdmin(uid)

\* the site clause of the three scoped policies: no role is checked
SiteClause(uid, site) ==
    \E ur \in user_roles :
        /\ SqlEq(ur.user_id, uid)
        /\ SqlEq(ur.site_id, site)
        /\ ur.is_active

CompanyClause(uid, company) ==
    \E ur \in user_roles :
        /\ SqlEq(ur.user_id, uid)
        /\ SqlEq(ur.company_id, company)
        /\ ur.role_id = "Company Admin"
        /\ ur.is_active

\* "Users can view clients in their scope"
ClientsSelect(uid, c) ==
    \/ IsSuperAdmin(uid)
    \/ CompanyClause(uid, c.company_id)
    \/ SiteClause(uid, c.site_id)
    \/ SqlEq(c.assigned_to, uid)

\* "Users can view proposals in their scope"
ProposalsSelect(uid, p) ==
    \/ IsSuperAdmin(uid)
    \/ \E c \in clients : SqlEq(c.id, p.client_id) /\ CompanyClause(uid, c.company_id)
    \/ \E c \in clients : SqlEq(c.id, p.client_id) /\ SiteClause(uid, c.site_id)
    \/ SqlEq(p.created_by, uid)

\* "Users can view sales in their scope"
SalesSelect(uid, s) ==
    \/ IsSuperAdmin(uid)
    \/ \E p \in proposals, c \in clients :
          /\ SqlEq(p.id, s.proposal_id)
          /\ SqlEq(c.id, p.client_id)
          /\ CompanyClause(uid, c.company_id)
    \/ \E p \in proposals, c \in clients :
          /\ SqlEq(p.id, s.proposal_id)
          /\ SqlEq(c.id, p.client_id)
          /\ SiteClause(uid, c.site_id)
    \/ SqlEq(s.closed_by, uid)

\* "Users can view activity logs in their scope"
ActivityLogsSelect(uid, l) == IsSuperAdmin(uid) \/ SqlEq(l.user_id, uid)

\* Row-level security is enabled on every table and clients, proposals, sales
\* and activity_logs have SELECT policies only: no policy grants a write.
ClientsInsert(uid, row) == FALSE
ProposalsInsert(uid, row) == FALSE
SalesInsert(uid, row) == FALSE
ActivityLogsInsert(uid, row) == FALSE

Tables == {"clients", "proposals", "sales"}

TableRows(t) ==
    CASE t = "clients" -> clients
      [] t = "proposals" -> proposals
      [] t = "sales" -> sales

RowVisible(uid, t, r) ==
    CASE t = "clients" -> ClientsSelect(uid, r)
      [] t = "proposals" -> ProposalsSelect(uid, r)
      [] t = "sales" -> SalesSelect(uid, r)

\* The client row a row hangs from (Proposal->Client, Sale->Proposal->Client),
\* as the !inner joins of the dashboards' queries resolve it.
ClientOf(t, r) ==
    CASE t = "clients" -> {r}
      [] t = "proposals" -> {c \in clients : c.id = r.client_id}
      [] t = "sales" ->
            {c \in clients : \E p \in proposals :
                p.id = r.proposal_id /\ c.id = p.client_id}

\* .eq(column, value) of a query; column "none" is no filter.
NoFilter == [column |-> "none", value |-> Null]
FilterMatch(t, r, f) ==
    CASE f.column = "none" -> TRUE
      [] f.column = "site_id" -> \E c \in ClientOf(t, r) : SqlEq(c.site_id, f.value)
      [] f.column = "company_id" ->
            \E c \in ClientOf(t, r) : SqlEq(c.company_id, f.value)

\* The rows a SELECT by caller uid returns: the filter and the policy.
SelectRows(uid, t, f) ==
    {r \in TableRows(t) : RowVisible(uid, t, r) /\ FilterMatch(t, r, f)}

(***************************************************************************)
(* Statements against the store (SpecStore)                                *)
(***************************************************************************)
Callers == UserIds \cup {Null}

Filters == {NoFilter, [column |-> "site_id", value |-> "site1"]}

\* A SELECT through the API by caller uid.
Select(uid, t, f) ==
    /\ response' = [kind |-> "select", by |-> uid, table |-> t, filter |-> f,
                    ok |-> TRUE, rows |-> SelectRows(uid, t, f)]
    /\ UNCHANGED <<storeVars, authVars>>

NewClientRows ==
    { ClientRow("client5", "company1", "site1", a) :
        a \in {"soukaina@example.com", Null} }

NewProposalRows ==
    { ProposalRow("proposal5", "client1", u, 75000, "pending") :
        u \in {"soukaina@example.com", "amine@example.com"} }

NewSaleRows == { SaleRow("sale3", "proposal1", "amine@example.com", 75000, None) }

NewUserRoleRows ==
    { UserRoleRow("ur5", NewUser, "Company Admin", "company2", s, TRUE) :
        s \in {"site1", Null} }

\* An INSERT INTO clients through the API by caller uid: accepted only if a
\* policy grants it.
InsertClient(uid, row) ==
    /\ Cardinality(clients) < MaxClients
    /\ row.id \notin {c.id : c \in clients}
    /\ IF ClientsInsert(uid, row)
       THEN /\ clients' = clients \cup {row}
            /\ response' = [kind |-> "insert", by |-> uid, table |-> "clients",
                            filter |-> NoFilter, ok |-> TRUE, rows |-> {row}]
       ELSE /\ clients' = clients
            /\ response' = [kind |-> "insert", by |-> uid, table |-> "clients",
                            filter |-> NoFilter, ok |-> FALSE, rows |-> {row}]
    /\ UNCHANGED <<users, user_roles, proposals, sales, activity_logs, authVars>>

InsertProposal(uid, row) ==
    /\ Cardinality(proposals) < MaxProposals
    /\ row.id \notin {p.id : p \in proposals}
    /\ row.client_id \in {c.id : c \in clients}
    /\ IF ProposalsInsert(uid, row)
       THEN /\ proposals' = proposals \cup {row}
            /\ response' = [kind |-> "insert", by |-> uid, table |-> "proposals",
                            filter |-> NoFilter, ok |-> TRUE, rows |-> {row}]
       ELSE /\ proposals' = proposals
            /\ response' = [kind |-> "insert", by |-> uid, table |-> "proposals",
                            filter |-> NoFilter, ok |-> FALSE, rows |-> {row}]
    /\ UNCHANGED <<users, user_roles, clients, sales, activity_logs, authVars>>

\* An INSERT INTO user_roles through the API: the FOR ALL policy of the
\* Super Admins; the row's company and site are not checked against each other.
InsertUserRole(uid, row) ==
    /\ Cardinality(user_roles) < MaxUserRoles
    /\ row.id \notin {ur.id : ur \in user_roles}
    /\ IF UserRolesWrite(uid)
       THEN /\ user_roles' = user_roles \cup {row}
            /\ response' = [kind |-> "insert", by |-> uid, table |-> "user_roles",
                            filter |-> NoFilter, ok |-> TRUE, rows |-> {row}]
       ELSE /\ user_roles' = user_roles
            /\ response' = [kind |-> "insert", by |-> uid, table |-> "user_roles",
                            filter |-> NoFilter, ok |-> FALSE, rows |-> {row}]
    /\ UNCHANGED <<users, clients, proposals, sales, activity_logs, authVars>>

\* A statement of the table owner (the migration's own INSERTs, a service
\* connection): row-level security does not apply to it.
OwnerInsertClient(row) ==
    /\ Cardinality(clients) < MaxClients
    /\ row.id \notin {c.id : c \in clients}
    /\ clients' = clients \cup {row}
    /\ response' = [kind |-> "insert", by |-> "owner", table |-> "clients",
                    filter |-> NoFilter, ok |-> TRUE, rows |-> {row}]
    /\ UNCHANGED <<users, user_roles, proposals, sales, activity_logs, authVars>>

OwnerInsertProposal(row) ==
    /\ Cardinality(proposals) < MaxProposals
    /\ row.id \notin {p.id : p \in proposals}
    /\ row.client_id = Null \/ row.client_id \in {c.id : c \in clients}
    /\ proposals' = proposals \cup {row}
    /\ response' = [kind |-> "insert", by |-> "owner", table |-> "proposals",
                    filter |-> NoFilter, ok |-> TRUE, rows |-> {row}]
    /\ UNCHANGED <<users, user_roles, clients, sales, activity_logs, authVars>>

OwnerInsertSale(row) ==
    /\ Cardinality(sales) < MaxSales
    /\ row.id \notin {s.id : s \in sales}
    /\ row.proposal_id = Null \/ row.proposal_id \in {p.id : p \in proposals}
    /\ sales' = sales \cup {row}
    /\ response' = [kind |-> "insert", by |-> "owner", table |-> "sales",
                    filter |-> NoFilter, ok |-> TRUE, rows |-> {row}]
    /\ UNCHANGED <<users, user_roles, clients, proposals, activity_logs, authVars>>

(***************************************************************************)
(* The supabase client of the application                                  *)
(***************************************************************************)
\* The key the client is created with: with the anon key the row-level
\* policies apply to every request, with the service key none does.
ConnKeys == {"anon", "service_role"}

\* auth.uid() of the application's requests: login checks the password itself
\* and never signs in to the store's own authentication, so there is none.
AppUid == Null

\* How an awaited request ends: answered by the store, answered with an
\* error result ({ error }), or the promise rejects.
Outcomes == {"ok", "error", "throw"}

RequestRejected == "request failed"

(***************************************************************************)
(* AuthProvider: session record, localStorage                              *)
(***************************************************************************)
\* role:roles(*), company:companies(*), site:sites(*) of one user_roles row
JoinedRole(ur) ==
    [id |-> ur.id, is_active |-> ur.is_active,
     role |-> [name |-> ur.role_id, level |-> RoleLevel(ur.role_id)],
     company |-> ur.company_id, site |-> ur.site_id]

\* const user: User = { id, email, ..., roles: userRoles || [] }
SessionUser(userData, roles) ==
    [id |-> userData.id, email |-> userData.email,
     is_active |-> userData.is_active, roles |-> roles]

\* JSON.stringify of a session record, and a string that is no JSON.
Stringify(u) == [text |-> "json", val |-> Some(u)]
Garbage == [text |-> "garbage", val |-> None]

\* JSON.parse throws on a string that is no JSON.
ParseThrows(str) == str.text # "json"

ParseMutant(str) == [str.val[1] EXCEPT !.roles = << >>]

Parse(str) == str.val[1]

\* All orders in which a query without ORDER BY may list a set of rows.
Orderings(S) ==
    {q \in [1..Cardinality(S) -> S] : \A i, j \in 1..Cardinality(S) : q[i] = q[j] => i = j}

(***************************************************************************)
(* Dashboard                                                               *)
(***************************************************************************)
\* the callback of user.roles.reduce
HigherMutant(highest, current) ==
    IF current.role.level > highest.role.level THEN current ELSE highest

HigherTieMutant(highest, current) ==
    IF current.role.level <= highest.role.level THEN current ELSE highest

Higher(highest, current) ==
    IF current.role.level < highest.role.level THEN current ELSE highest

\* Array.prototype.reduce without an initial value, from index i on
RECURSIVE ReduceFrom(_, _, _)
ReduceFrom(roles, i, acc) ==
    IF i > Len(roles) THEN acc ELSE ReduceFrom(roles, i + 1, Higher(acc, roles[i]))

PrimaryRole(roles) == ReduceFrom(roles, 2, roles[1])

\* renderDashboard: switch (primaryRole.role.name)
RenderDashboardMutant(name) ==
    CASE name = "Super Admin" -> "SuperAdmin"
      [] name = "Company Admin" -> "CompanyAdmin"
      [] name = "Site Manager" -> "CompanyAdmin"
      [] name = "Commercial" -> "Commercial"
      [] OTHER -> "UnknownRole"

RenderDashboard(name) ==
    CASE name = "Super Admin" -> "SuperAdmin"
      [] name = "Company Admin" -> "CompanyAdmin"
      [] name = "Site Manager" -> "SiteManager"
      [] name = "Commercial" -> "Commercial"
      [] OTHER -> "UnknownRole"

\* Dashboard(): the no-role guard, then the dashboard of the primary role
DashboardKindMutant(u) ==
    IF Len(u.roles) = 0 THEN "Commercial"
    ELSE RenderDashboard(PrimaryRole(u.roles).role.name)

DashboardKind(u) ==
    IF Len(u.roles) = 0 THEN "NoRole"
    ELSE RenderDashboard(PrimaryRole(u.roles).role.name)

Query(t, col, val) == [table |-> t, column |-> col, value |-> val]

\* The queries a role dashboard issues when it mounts (its useEffect).
SuperAdminQueries ==
    { Query(t, "none", Null) :
        t \in {"users", "companies", "sites", "sales", "proposals", "activity_logs"} }

CompanyAdminQueries(userRole) ==
    IF userRole.company = Null THEN {}
    ELSE { Query("user_roles", "company_id", userRole.company),
           Query("sites", "company_id", userRole.company),
           Query("sales", "proposal.client.company_id", userRole.company),
           Query("proposals", "client.company_id", userRole.company),
           Query("activity_logs", "none", Null) }

SiteManagerQueries(userRole) ==
    IF userRole.site = Null THEN {}
    ELSE { Query("user_roles", "site_id", userRole.site),
           Query("sales", "proposal.client.site_id", userRole.site),
           Query("proposals", "client.site_id", userRole.site),
           Query("activity_logs", "none", Null) }

CommercialQueries(u) ==
    { Query("sales", "closed_by", u.id),
      Query("proposals", "created_by", u.id),
      Query("clients", "assigned_to", u.id) }

QueriesOf(kind, u) ==
    CASE kind = "SuperAdmin" -> SuperAdminQueries
      [] kind = "CompanyAdmin" -> CompanyAdminQueries(PrimaryRole(u.roles))
      [] kind = "SiteManager" -> SiteManagerQueries(PrimaryRole(u.roles))
      [] kind = "Commercial" -> CommercialQueries(u)
      [] OTHER -> {}

(***************************************************************************)
(* AppContent: the route table                                             *)
(***************************************************************************)
Paths == {"/", "/login", "/dashboard"}

Element(name) == [render |-> name, to |-> Null]
NavigateTo(path) == [render |-> "Navigate", to |-> path]

\* <Routes>: the element of the route that matches the path
RouteElementMutant(path, u) ==
    CASE path = "/login" -> IF u # None THEN NavigateTo("/dashboard") ELSE Element("Login")
      [] path = "/dashboard" -> Element("Dashboard")
      [] path = "/" -> NavigateTo(IF u # None THEN "/dashboard" ELSE "/login")

RouteElement(path, u) ==
    CASE path = "/login" -> IF u # None THEN NavigateTo("/dashboard") ELSE Element("Login")
      [] path = "/dashboard" -> IF u # None THEN Element("Dashboard") ELSE NavigateTo("/login")
      [] path = "/" -> NavigateTo(IF u # None THEN "/dashboard" ELSE "/login")

\* AppContent(): the spinner while loading, the routes afterwards
AppContent(path, u, ld) ==
    IF ld THEN Element("LoadingSpinner") ELSE RouteElement(path, u)

\* What is on screen: nothing once an effect has thrown and the tree is gone.
Rendered ==
    IF app = "crashed" THEN Element("Nothing") ELSE AppContent(location, user, loading)

\* The browser moves to another path of the application (history, link).
Visit(path) ==
    /\ app # "crashed"
    /\ path # location
    /\ location' = path
    /\ mounted' = "none"
    /\ primaryRole' = None
    /\ issued' = {}
    /\ UNCHANGED <<storeVars, response, conn, storage, app, user, loading, login,
                   logout, authenticated, fetch>>

\* <Navigate to=... replace />: the rendered redirect replaces the location.
NavigateStep ==
    /\ Rendered.render = "Navigate"
    /\ location' = Rendered.to
    /\ UNCHANGED <<storeVars, response, conn, storage, app, user, loading, login,
                   logout, mounted, primaryRole, issued, authenticated, fetch>>

\* Dashboard renders for the session user and the role dashboard mounts.
MountDashboard ==
    /\ app = "running" /\ ~loading
    /\ user # None
    /\ Rendered.render = "Dashboard"
    /\ mounted = "none"
    /\ LET u == user[1]
           kind == DashboardKind(u)
       IN /\ mounted' = kind
          /\ primaryRole' = IF Len(u.roles) = 0 THEN None ELSE Some(PrimaryRole(u.roles))
          /\ issued' = QueriesOf(kind, u)
    /\ UNCHANGED <<location, authenticated, fetch, storeVars, response, conn, storage, app, user, loading, login, logout>>

(***************************************************************************)
(* AuthProvider: startup, login, logout                                    *)
(***************************************************************************)
IdleLogin ==
    [pc |-> "idle", email |-> Null, password |-> Null, userData |-> None,
     error |-> Null, cause |-> "none", sessionSet |-> FALSE, logged |-> 0]

IdleLogout == [pc |-> "idle", user_id |-> Null, logged |-> 0]

\* useEffect(() => { ... }, []) of AuthProvider
Startup ==
    /\ app = "starting"
    /\ IF storage = None
       THEN /\ app' = "running" /\ loading' = FALSE /\ user' = user
       ELSE IF ParseThrows(storage[1])
       THEN /\ app' = "crashed" /\ loading' = loading /\ user' = user
       ELSE /\ app' = "running" /\ loading' = FALSE
            /\ user' = Some(Parse(storage[1]))
    /\ UNCHANGED <<location, authenticated, fetch, storeVars, response, conn, storage, login, logout, mounted,
                   primaryRole, issued>>

\* The Login page is routed only while there is no user.
LoginCall(email, password) ==
    /\ app = "running" /\ ~loading
    /\ user = None
    /\ login.pc = "idle"
    /\ Len(activity_logs) < Len(SeedLogs) + MaxNewLogs
    /\ login' = [IdleLogin EXCEPT !.pc = "lookup", !.email = email,
                                  !.password = password]
    /\ UNCHANGED <<location, authenticated, fetch, storeVars, response, conn, storage, app, user, loading, logout,
                   mounted, primaryRole, issued>>

LookupFailureMutant == "User not found"

\* throw new Error('Invalid email or password') after the lookup
LookupFailure == "Invalid email or password"

\* throw new Error('Invalid email or password') after bcrypt.compare
PasswordFailure == "Invalid email or password"

RolesFailure == "Failed to fetch user roles"

\* The rows the users lookup selects: .eq('email').eq('is_active', true),
\* under the policies of the connection.
LookupRows(email) ==
    {u \in users : /\ u.email = email
                   /\ u.is_active
                   /\ (conn = "service_role" \/ UsersSelect(AppUid, u))}

\* Why the lookup found no row (kept for the properties only).
LookupCause(email) ==
    IF ~\E u \in users : u.email = email THEN "unknown_email"
    ELSE IF \E u \in users : u.email = email /\ ~u.is_active THEN "inactive_user"
    ELSE "not_visible"

\* await supabase.from('users')...single(), then the userError check
LoginLookup(o) ==
    /\ login.pc = "lookup"
    /\ CASE o = "throw" ->
              login' = [login EXCEPT !.pc = "failed", !.error = RequestRejected,
                                     !.cause = "lookup_threw"]
         [] o = "error" ->
              login' = [login EXCEPT !.pc = "failed", !.error = LookupFailure,
                                     !.cause = "lookup_error"]
         [] o = "ok" ->
              IF Cardinality(LookupRows(login.email)) = 1
              THEN login' = [login EXCEPT !.pc = "verify",
                                !.userData = Some(CHOOSE u \in LookupRows(login.email) : TRUE)]
              ELSE login' = [login EXCEPT !.pc = "failed", !.error = LookupFailure,
                                          !.cause = LookupCause(login.email)]
    /\ UNCHANGED <<location, authenticated, fetch, storeVars, response, conn, storage, app, user, loading, logout,
                   mounted, primaryRole, issued>>

\* await bcrypt.compare(password, userData.password_hash)
LoginVerify ==
    /\ login.pc = "verify"
    /\ IF BcryptCompare(login.password, login.userData[1].password_hash)
       THEN /\ login' = [login EXCEPT !.pc = "roles"]
            /\ authenticated' = Some(login.userData[1].id)
       ELSE /\ login' = [login EXCEPT !.pc = "failed", !.error = PasswordFailure,
                                      !.cause = "wrong_password"]
            /\ authenticated' = authenticated
    /\ UNCHANGED <<location, fetch, storeVars, response, conn, storage, app, user, loading, logout,
                   mounted, primaryRole, issued>>

\* The rows of the user_roles query: .eq('user_id').eq('is_active', true)
RolesRows(uid) ==
    {ur \in user_roles : /\ ur.user_id = uid
                         /\ ur.is_active
                         /\ (conn = "service_role" \/ UserRolesSelect(AppUid, ur))}

\* await supabase.from('user_roles')..., the rolesError check, then setUser,
\* localStorage.setItem and the activity_logs insert is sent.
LoginRoles(o) ==
    /\ login.pc = "roles"
    /\ CASE o = "throw" ->
              /\ login' = [login EXCEPT !.pc = "failed", !.error = RequestRejected,
                                        !.cause = "roles_threw"]
              /\ UNCHANGED <<user, storage, mounted, primaryRole, issued>>
         [] o = "error" ->
              /\ login' = [login EXCEPT !.pc = "failed", !.error = RolesFailure,
                                        !.cause = "roles_error"]
              /\ UNCHANGED <<user, storage, mounted, primaryRole, issued>>
         [] o = "ok" ->
              \E roles \in Orderings({JoinedRole(ur) : ur \in RolesRows(login.userData[1].id)}) :
                 LET u == SessionUser(login.userData[1], roles)
                 IN /\ user' = Some(u)
                    /\ storage' = Some(Stringify(u))
                    /\ login' = [login EXCEPT !.pc = "log", !.sessionSet = TRUE]
                    /\ mounted' = "none"
                    /\ primaryRole' = None
                    /\ issued' = {}
    /\ UNCHANGED <<location, authenticated, fetch, storeVars, response, conn, app, loading, logout>>

\* Whether the store accepts the application's insert into activity_logs.
AppInsertLogAccepted(row) == conn = "service_role" \/ ActivityLogsInsert(AppUid, row)

\* await supabase.from('activity_logs').insert({... action: 'login' ...});
\* its result is not looked at.
LoginLog(o) ==
    /\ login.pc = "log"
    /\ LET row == LogRow(login.userData[1].id, "login", "auth")
       IN CASE o = "throw" ->
                 /\ login' = [login EXCEPT !.pc = "failed", !.error = RequestRejected,
                                           !.cause = "insert_threw"]
                 /\ activity_logs' = activity_logs
            [] o = "error" ->
                 /\ login' = [login EXCEPT !.pc = "done"]
                 /\ activity_logs' = activity_logs
            [] o = "ok" ->
                 IF AppInsertLogAccepted(row)
                 THEN /\ login' = [login EXCEPT !.pc = "done", !.logged = login.logged + 1]
                      /\ activity_logs' = Append(activity_logs, row)
                 ELSE /\ login' = [login EXCEPT !.pc = "done"]
                      /\ activity_logs' = activity_logs
    /\ UNCHANGED <<location, authenticated, fetch, users, user_roles, clients, proposals, sales, response, conn,
                   storage, app, user, loading, logout, mounted, primaryRole, issued>>

\* The caller has seen the login's promise settle.
LoginReturn ==
    /\ login.pc \in {"done", "failed"}
    /\ login' = IdleLogin
    /\ UNCHANGED <<location, authenticated, fetch, storeVars, response, conn, storage, app, user, loading, logout,
                   mounted, primaryRole, issued>>

\* setUser(null); localStorage.removeItem('user'); the Dashboard unmounts.
ClearSessionMutant ==
    /\ user' = None
    /\ storage' = storage
    /\ mounted' = "none"
    /\ primaryRole' = None
    /\ issued' = {}

ClearSession ==
    /\ user' = None
    /\ storage' = None
    /\ mounted' = "none"
    /\ primaryRole' = None
    /\ issued' = {}

\* logout(): with a user the insert is awaited first, without one the
\* session is cleared at once.
LogoutCall ==
    /\ app = "running" /\ ~loading
    /\ logout.pc = "idle"
    /\ Len(activity_logs) < Len(SeedLogs) + MaxNewLogs
    /\ IF user # None
       THEN /\ logout' = [IdleLogout EXCEPT !.pc = "log", !.user_id = user[1].id]
            /\ UNCHANGED <<user, storage, mounted, primaryRole, issued>>
       ELSE /\ logout' = [IdleLogout EXCEPT !.pc = "done"]
            /\ ClearSession
    /\ UNCHANGED <<location, authenticated, fetch, storeVars, response, conn, app, loading, login>>

\* await supabase.from('activity_logs').insert({... action: 'logout' ...}),
\* its result not looked at, then setUser(null) and removeItem.
LogoutLog(o) ==
    /\ logout.pc = "log"
    /\ LET row == LogRow(logout.user_id, "logout", "auth")
       IN CASE o = "throw" ->
                 /\ logout' = [logout EXCEPT !.pc = "failed"]
                 /\ activity_logs' = activity_logs
                 /\ UNCHANGED <<user, storage, mounted, primaryRole, issued>>
            [] o = "error" ->
                 /\ logout' = [logout EXCEPT !.pc = "done"]
                 /\ activity_logs' = activity_logs
                 /\ ClearSession
            [] o = "ok" ->
                 /\ IF AppInsertLogAccepted(row)
                    THEN /\ logout' = [logout EXCEPT !.pc = "done", !.logged = logout.logged + 1]
                         /\ activity_logs' = Append(activity_logs, row)
                    ELSE /\ logout' = [logout EXCEPT !.pc = "done"]
                         /\ activity_logs' = activity_logs
                 /\ ClearSession
    /\ UNCHANGED <<location, authenticated, fetch, users, user_roles, clients, proposals, sales, response, conn,
                   app, loading, login>>

\* The caller (handleLogout) has seen the logout's promise settle.
LogoutReturn ==
    /\ logout.pc \in {"done", "failed"}
    /\ logout' = IdleLogout
    /\ UNCHANGED <<location, authenticated, fetch, storeVars, response, conn, storage, app, user, loading, login,
                   mounted, primaryRole, issued>>

\* No role dashboard is mounted: nothing is being fetched.
IdleFetch ==
    [pc |-> "idle", kind |-> "none", results |-> << >>, stats |-> None,
     loading |-> TRUE, outOfOrder |-> FALSE]

NoResponse ==
    [kind |-> "none", by |-> Null, table |-> "none", filter |-> NoFilter,
     ok |-> TRUE, rows |-> {}]


\* The store as the migration leaves it, plus the user registered afterwards.
InitStore ==
    /\ users = SeedUsers \cup {UserRow(NewUser, TRUE)}
    /\ user_roles = SeedUserRoles
    /\ clients = SeedClients
    /\ proposals = SeedProposals
    /\ sales = SeedSales
    /\ activity_logs = SeedLogs
    /\ response = NoResponse
    /\ conn = "anon"
    /\ storage = None
    /\ app = "starting"
    /\ user = None
    /\ loading = TRUE
    /\ login = IdleLogin
    /\ logout = IdleLogout
    /\ mounted = "none"
    /\ primaryRole = None
    /\ issued = {}
    /\ location = "/"
    /\ authenticated = None
    /\ fetch = IdleFetch

NextStore ==
    \/ \E uid \in Callers, t \in Tables, f \in Filters : Select(uid, t, f)
    \/ \E uid \in Callers, row \in NewClientRows : InsertClient(uid, row)
    \/ \E uid \in Callers, row \in NewProposalRows : InsertProposal(uid, row)
    \/ \E uid \in Callers, row \in NewUserRoleRows : InsertUserRole(uid, row)
    \/ \E row \in NewClientRows : OwnerInsertClient(row)
    \/ \E row \in NewProposalRows : OwnerInsertProposal(row)
    \/ \E row \in NewSaleRows : OwnerInsertSale(row)

SpecStore == InitStore /\ [][NextStore]_vars

(***************************************************************************)
(* SpecWrites: inserts, updates and deletes against the store              *)
(***************************************************************************)
\* "Super admins can manage all users" (FOR ALL): the only write policy of
\* the users table
UsersWrite(uid) == IsSuperAdmin(uid)

\* user_roles.assigned_by of the seed rows (REFERENCES users(id) with no
\* ON DELETE action); rows inserted later leave the column NULL.
AssignedBy(id) ==
    CASE id \in {"ur1", "ur2"} -> "superadmin@example.com"
      [] id = "ur3" -> "admin@example.com"
      [] id = "ur4" -> "amine@example.com"
      [] OTHER -> Null

\* ON DELETE SET NULL of a column that references users(id)
SetNull(v, target) == IF v = target THEN Null ELSE v

WriteResponse(kind, uid, t, ok) ==
    [kind |-> kind, by |-> uid, table |-> t, filter |-> NoFilter, ok |-> ok,
     rows |-> {}]

DeleteTargets == {"soukaina@example.com", "amine@example.com", NewUser}

\* DELETE FROM users WHERE id = target through the API by caller uid. With
\* the policy's grant the referential actions run: user_roles rows of the user
\* go (CASCADE), assigned_to, created_by, closed_by and activity_logs.user_id
\* become NULL; a remaining user_roles row assigned by the user blocks it.
DeleteUser(uid, target) ==
    /\ target \in {u.id : u \in users}
    /\ IF /\ UsersWrite(uid)
          /\ ~\E ur \in user_roles : ur.user_id # target /\ AssignedBy(ur.id) = target
       THEN /\ users' = {u \in users : u.id # target}
            /\ user_roles' = {ur \in user_roles : ur.user_id # target}
            /\ clients' = {[c EXCEPT !.assigned_to = SetNull(c.assigned_to, target)] :
                              c \in clients}
            /\ proposals' = {[q EXCEPT !.created_by = SetNull(q.created_by, target)] :
                                q \in proposals}
            /\ sales' = {[x EXCEPT !.closed_by = SetNull(x.closed_by, target)] :
                            x \in sales}
            /\ activity_logs' =
                  [i \in 1..Len(activity_logs) |->
                      [activity_logs[i] EXCEPT
                          !.user_id = SetNull(activity_logs[i].user_id, target)]]
            /\ response' = WriteResponse("delete", uid, "users", TRUE)
       ELSE /\ UNCHANGED storeVars
            /\ response' = WriteResponse("delete", uid, "users", FALSE)
    /\ UNCHANGED authVars

NewLogRows ==
    { LogRow(u, a, "auth") : u \in {"soukaina@example.com", NewUser},
                             a \in {"login", "logout"} }

\* INSERT INTO activity_logs through the API by caller uid
InsertLog(uid, row) ==
    /\ Len(activity_logs) < Len(SeedLogs) + MaxNewLogs
    /\ IF ActivityLogsInsert(uid, row)
       THEN /\ activity_logs' = Append(activity_logs, row)
            /\ response' = WriteResponse("insert", uid, "activity_logs", TRUE)
       ELSE /\ activity_logs' = activity_logs
            /\ response' = WriteResponse("insert", uid, "activity_logs", FALSE)
    /\ UNCHANGED <<users, user_roles, clients, proposals, sales, authVars>>

\* UPDATE activity_logs SET action = ... and DELETE FROM activity_logs through
\* the API: no policy grants either, so no row is touched.
UpdateLog(uid, i) ==
    /\ i \in 1..Len(activity_logs)
    /\ response' = WriteResponse("update", uid, "activity_logs", FALSE)
    /\ UNCHANGED <<storeVars, authVars>>

DeleteLog(uid, i) ==
    /\ i \in 1..Len(activity_logs)
    /\ response' = WriteResponse("delete", uid, "activity_logs", FALSE)
    /\ UNCHANGED <<storeVars, authVars>>

\* The login or logout row of the application arriving over a connection the
\* policies do not apply to.
OwnerInsertLog(row) ==
    /\ Len(activity_logs) < Len(SeedLogs) + MaxNewLogs
    /\ row.user_id \in {u.id : u \in users}
    /\ activity_logs' = Append(activity_logs, row)
    /\ response' = WriteResponse("insert", "owner", "activity_logs", TRUE)
    /\ UNCHANGED <<users, user_roles, clients, proposals, sales, authVars>>

WriteCallers == {"superadmin@example.com", "soukaina@example.com", NewUser, Null}

NextWrites ==
    \/ \E uid \in WriteCallers, row \in NewClientRows : InsertClient(uid, row)
    \/ \E uid \in WriteCallers, row \in NewUserRoleRows : InsertUserRole(uid, row)
    \/ \E uid \in WriteCallers, row \in NewLogRows : InsertLog(uid, row)
    \/ \E uid \in WriteCallers, i \in 1..(Len(SeedLogs) + MaxNewLogs) : UpdateLog(uid, i)
    \/ \E uid \in WriteCallers, i \in 1..(Len(SeedLogs) + MaxNewLogs) : DeleteLog(uid, i)
    \/ \E uid \in WriteCallers, target \in DeleteTargets : DeleteUser(uid, target)
    \/ \E row \in NewLogRows : OwnerInsertLog(row)

SpecWrites == InitStore /\ [][NextWrites]_vars

(***************************************************************************)
(* SpecFetch: the statistics fetch of a mounted role dashboard             *)
(***************************************************************************)
\* The seed's companies and sites (the tables are not written to here).
SeedCompanies == { [id |-> "company1"], [id |-> "company2"] }

SeedSites ==
    { [id |-> "site1", company_id |-> "company1"],
      [id |-> "site2", company_id |-> "company1"],
      [id |-> "site3", company_id |-> "company2"] }

\* "Super admins can manage all companies", "Company admins can view their
\* company" (the latter checks no role name)
CompaniesSelect(uid, c) ==
    \/ IsSuperAdmin(uid)
    \/ \E ur \in user_roles :
          SqlEq(ur.user_id, uid) /\ SqlEq(ur.company_id, c.id) /\ ur.is_active

\* "Super admins can manage all sites", "Company admins can manage their
\* company sites", "Site managers can view their site"
SitesSelect(uid, st) ==
    \/ IsSuperAdmin(uid)
    \/ CompanyClause(uid, st.company_id)
    \/ SiteClause(uid, st.id)

\* .limit(10) of the activity_logs queries, .slice(0, 5) of the top performers
RecentLimit == 10
TopLimit == 5

FetchKinds == {"SuperAdmin", "CompanyAdmin", "SiteManager", "Commercial"}

\* The queries of Promise.all([...]), in the order of the array
FetchQueries(kind, u, userRole) ==
    CASE kind = "SuperAdmin" ->
            << Query("users", "none", Null), Query("companies", "none", Null),
               Query("sites", "none", Null), Query("sales", "none", Null),
               Query("proposals", "none", Null), Query("activity_logs", "none", Null) >>
      [] kind = "CompanyAdmin" ->
            << Query("user_roles", "company_id", userRole.company),
               Query("sites", "company_id", userRole.company),
               Query("sales", "proposal.client.company_id", userRole.company),
               Query("proposals", "client.company_id", userRole.company),
               Query("activity_logs", "none", Null),
               Query("sites", "company_id", userRole.company) >>
      [] kind = "SiteManager" ->
            << Query("user_roles", "site_id", userRole.site),
               Query("sales", "proposal.client.site_id", userRole.site),
               Query("proposals", "client.site_id", userRole.site),
               Query("activity_logs", "none", Null),
               Query("user_roles", "site_id", userRole.site) >>
      [] kind = "Commercial" ->
            << Query("sales", "closed_by", u.id),
               Query("proposals", "created_by", u.id),
               Query("clients", "assigned_to", u.id) >>

\* Whether the application's connection may read a row.
AppSees(t, r) ==
    \/ conn = "service_role"
    \/ CASE t = "users" -> UsersSelect(AppUid, r)
          [] t = "companies" -> CompaniesSelect(AppUid, r)
          [] t = "sites" -> SitesSelect(AppUid, r)
          [] t = "user_roles" -> UserRolesSelect(AppUid, r)
          [] t = "clients" -> ClientsSelect(AppUid, r)
          [] t = "proposals" -> ProposalsSelect(AppUid, r)
          [] t = "sales" -> SalesSelect(AppUid, r)
          [] t = "activity_logs" -> ActivityLogsSelect(AppUid, r)

\* .eq(column, value) of the dashboards' queries on a row of table t
QueryMatch(q, r) ==
    CASE q.column = "none" -> TRUE
      [] q.column = "closed_by" -> SqlEq(r.closed_by, q.value)
      [] q.column = "created_by" -> SqlEq(r.created_by, q.value)
      [] q.column = "assigned_to" -> SqlEq(r.assigned_to, q.value)
      [] q.column = "site_id" ->
            SqlEq(r.site_id, q.value) /\ r.role_id = "Commercial"
      [] q.column = "company_id" -> SqlEq(r.company_id, q.value)
      [] q.column = "client.company_id" ->
            \E c \in ClientOf("proposals", r) : SqlEq(c.company_id, q.value)
      [] q.column = "proposal.client.company_id" ->
            \E c \in ClientOf("sales", r) : SqlEq(c.company_id, q.value)
      [] q.column = "client.site_id" ->
            \E c \in ClientOf("proposals", r) : SqlEq(c.site_id, q.value)
      [] q.column = "proposal.client.site_id" ->
            \E c \in ClientOf("sales", r) : SqlEq(c.site_id, q.value)

\* .order('created_at', { ascending: false }).limit(10) of a sequence of rows
RECURSIVE Reverse(_)
Reverse(sq) == IF sq = << >> THEN << >> ELSE Append(Reverse(Tail(sq)), Head(sq))

Recent(sq) ==
    IF Len(sq) <= RecentLimit THEN Reverse(sq)
    ELSE SubSeq(Reverse(sq), 1, RecentLimit)

\* The rows the store answers a query with: a set, for activity_logs the
\* most recent rows in order.
QueryRows(q) ==
    CASE q.table = "users" -> {r \in users : AppSees("users", r)}
      [] q.table = "companies" -> {r \in SeedCompanies : AppSees("companies", r)}
      [] q.table = "sites" ->
            {r \in SeedSites : AppSees("sites", r) /\ QueryMatch(q, r)}
      [] q.table = "user_roles" ->
            {r \in user_roles : AppSees("user_roles", r) /\ QueryMatch(q, r)}
      [] q.table = "clients" ->
            {r \in clients : AppSees("clients", r) /\ QueryMatch(q, r)}
      [] q.table = "proposals" ->
            {r \in proposals : AppSees("proposals", r) /\ QueryMatch(q, r)}
      [] q.table = "sales" ->
            {r \in sales : AppSees("sales", r) /\ QueryMatch(q, r)}
      [] q.table = "activity_logs" ->
            Recent(SelectSeq(activity_logs, LAMBDA r : AppSees("activity_logs", r)))

\* A result of Promise.all's array: not settled yet, { data, count },
\* { error } (data and count undefined) or a rejected promise.
\* No rows: an empty list for the ordered activity_logs query, else no row.
NoRows(q) == IF q.table = "activity_logs" THEN << >> ELSE {}
Pending(q) == [state |-> "pending", rows |-> NoRows(q)]
Settled(q, o) ==
    IF o = "ok" THEN [state |-> "ok", rows |-> QueryRows(q)]
    ELSE [state |-> o, rows |-> NoRows(q)]

\* data.reduce((sum, row) => sum + row[field], 0) for a NOT NULL column
RECURSIVE SumOf(_, _)
SumOf(rows, field) ==
    IF rows = {} THEN 0
    ELSE LET r == CHOOSE x \in rows : TRUE
         IN r[field] + SumOf(rows \ {r}, field)

\* (sale.commission || 0): a commission that is null counts as 0
OrZero(opt) == IF opt = None THEN 0 ELSE opt[1]

\* data.reduce((sum, sale) => sum + (sale.commission || 0), 0)
RECURSIVE SumCommission(_)
SumCommission(rows) ==
    IF rows = {} THEN 0
    ELSE LET r == CHOOSE x \in rows : TRUE
         IN OrZero(r.commission) + SumCommission(rows \ {r})

\* result.count || 0, result.data?.reduce(...) || 0, result.data || []

CountOrZero(res) == IF res.state = "ok" THEN Cardinality(res.rows) ELSE 0
TotalOrZero(res, field) == IF res.state = "ok" THEN SumOf(res.rows, field) ELSE 0
CommissionOrZero(res) == IF res.state = "ok" THEN SumCommission(res.rows) ELSE 0
WithStatus(res, st) ==
    IF res.state = "ok" THEN Cardinality({r \in res.rows : r.status = st}) ELSE 0
DataOrEmpty(res) == IF res.state = "ok" THEN res.rows ELSE {}
ListOrEmpty(res) == IF res.state = "ok" THEN res.rows ELSE << >>

\* count ? (closed / count) * 100 : 0, kept as the fraction closed*100 / count
ConversionRate(res) ==
    IF CountOrZero(res) = 0 THEN <<0, 1>>
    ELSE <<WithStatus(res, "closed") * 100, CountOrZero(res)>>

\* performanceMap after the forEach has visited data[i], data[i+1], ...: one
\* entry per closed_by in the order of first appearance (a Map keeps the
\* insertion order of its keys).
RECURSIVE PerformanceFrom(_, _, _)
PerformanceFrom(data, i, acc) ==
    IF i > Len(data) THEN acc
    ELSE LET sale == data[i]
             has == \E k \in 1..Len(acc) : acc[k].userId = sale.closed_by
             map == IF has THEN acc
                    ELSE Append(acc, [userId |-> sale.closed_by, sales |-> 0, commission |-> 0])
             k == CHOOSE j \in 1..Len(map) : map[j].userId = sale.closed_by
             current == map[k]
         IN PerformanceFrom(data, i + 1,
                [map EXCEPT ![k] = [userId |-> sale.closed_by,
                                    sales |-> current.sales + sale.amount,
                                    commission |-> current.commission + OrZero(sale.commission)]])

PerformanceMap(data) == PerformanceFrom(data, 1, << >>)

\* .sort((a, b) => b.sales - a.sales): a stable sort, the larger total first;
\* an entry goes behind the entries placed so far that the comparator does
\* not put after it.
InsertBySalesMutant(sorted, x) ==
    LET n == Cardinality({k \in 1..Len(sorted) : sorted[k].sales <= x.sales})
    IN SubSeq(sorted, 1, n) \o << x >> \o SubSeq(sorted, n + 1, Len(sorted))

InsertBySales(sorted, x) ==
    LET n == Cardinality({k \in 1..Len(sorted) : sorted[k].sales >= x.sales})
    IN SubSeq(sorted, 1, n) \o << x >> \o SubSeq(sorted, n + 1, Len(sorted))

RECURSIVE SortFrom(_, _, _)
SortFrom(list, i, acc) ==
    IF i > Len(list) THEN acc ELSE SortFrom(list, i + 1, InsertBySales(acc, list[i]))

SortBySales(list) == SortFrom(list, 1, << >>)

\* .slice(0, n)
Slice(list, n) == SubSeq(list, 1, IF Len(list) < n THEN Len(list) ELSE n)

\* topPerformers of a list of returned sales
TopPerformersOf(data) == Slice(SortBySales(PerformanceMap(data)), TopLimit)

\* The rows of a result as the list the store returned them in (the query
\* has no ORDER BY: one order is taken).
AsList(rows) == CHOOSE q \in Orderings(rows) : TRUE

TopPerformers(res) == TopPerformersOf(AsList(DataOrEmpty(res)))

\* The object passed to setStats
Stats(kind, res) ==
    CASE kind = "SuperAdmin" ->
            [totalUsers |-> CountOrZero(res[1]),
             totalCompanies |-> CountOrZero(res[2]),
             totalSites |-> CountOrZero(res[3]),
             totalSales |-> TotalOrZero(res[4], "amount"),
             totalProposals |-> CountOrZero(res[5]),
             pendingProposals |-> WithStatus(res[5], "pending"),
             recentActivities |-> ListOrEmpty(res[6])]
      [] kind = "CompanyAdmin" ->
            [totalUsers |-> CountOrZero(res[1]),
             totalSites |-> CountOrZero(res[2]),
             totalSales |-> TotalOrZero(res[3], "amount"),
             totalProposals |-> CountOrZero(res[4]),
             recentActivities |-> ListOrEmpty(res[5]),
             sites |-> DataOrEmpty(res[6])]
      [] kind = "SiteManager" ->
            [totalCommercials |-> CountOrZero(res[1]),
             totalSales |-> TotalOrZero(res[2], "amount"),
             totalProposals |-> CountOrZero(res[3]),
             conversionRate |-> ConversionRate(res[3]),
             recentActivities |-> ListOrEmpty(res[4]),
             commercials |-> DataOrEmpty(res[5]),
             topPerformers |-> TopPerformers(res[2])]
      [] kind = "Commercial" ->
            [personalSales |-> TotalOrZero(res[1], "amount"),
             personalProposals |-> CountOrZero(res[2]),
             personalClients |-> CountOrZero(res[3]),
             conversionRate |-> ConversionRate(res[2]),
             commission |-> CommissionOrZero(res[1]),
             recentProposals |-> DataOrEmpty(res[2])]

\* The panel a role dashboard shows when loading is over and stats is null
FailPanel(kind) ==
    CASE kind = "SiteManager" -> "No site assigned"
      [] kind = "CompanyAdmin" -> "No company assigned"
      [] OTHER -> "Failed to load dashboard"

\* What the role dashboard renders: the skeleton while its loading state is
\* true (the state it is constructed with), then the statistics or, with
\* stats null, the panel of FailPanel.
Panel ==
    IF mounted \notin FetchKinds THEN "None"
    ELSE IF fetch.loading THEN "Skeleton"
    ELSE IF fetch.stats = None THEN FailPanel(mounted)
    ELSE "Stats"

\* useEffect of the mounted role dashboard: set off every query of the array
FetchStart ==
    /\ fetch.pc = "idle"
    /\ mounted \in FetchKinds
    /\ user # None /\ primaryRole # None
    /\ mounted = "SiteManager" => primaryRole[1].site # Null
    /\ mounted = "CompanyAdmin" => primaryRole[1].company # Null
    /\ LET qs == FetchQueries(mounted, user[1], primaryRole[1])
       IN fetch' = [pc |-> "awaiting", kind |-> mounted,
                    results |-> [i \in 1..Len(qs) |-> Pending(qs[i])],
                    stats |-> None, loading |-> TRUE, outOfOrder |-> FALSE]
    /\ UNCHANGED <<storeVars, response, conn, storage, app, user, loading, login,
                   logout, mounted, primaryRole, issued, location, authenticated>>

\* One query of the array settles, whatever the others have done.
QuerySettle(i, o) ==
    /\ fetch.pc \in {"awaiting", "done"}
    /\ i \in 1..Len(fetch.results)
    /\ fetch.results[i].state = "pending"
    /\ LET qs == FetchQueries(fetch.kind, user[1], primaryRole[1])
       IN fetch' = [fetch EXCEPT
                      !.results[i] = Settled(qs[i], o),
                      !.outOfOrder = fetch.outOfOrder \/
                          \E j \in 1..(i - 1) : fetch.results[j].state = "pending"]
    /\ UNCHANGED <<storeVars, response, conn, storage, app, user, loading, login,
                   logout, mounted, primaryRole, issued, location, authenticated>>

\* Promise.all: fulfilled once every promise is, rejected once one is.
AllFulfilledMutant(results) ==
    \E i \in 1..Len(results) : results[i].state \in {"ok", "error"}

AllFulfilled(results) ==
    \A i \in 1..Len(results) : results[i].state \in {"ok", "error"}

RejectedMutant(results) == FALSE

Rejected(results) == \E i \in 1..Len(results) : results[i].state = "throw"

\* The await of Promise.all resumes: setStats from the results, or the catch
\* block; setLoading(false) in finally.
FetchJoin ==
    /\ fetch.pc = "awaiting"
    /\ IF Rejected(fetch.results)
       THEN fetch' = [fetch EXCEPT !.pc = "done", !.loading = FALSE]
       ELSE /\ AllFulfilled(fetch.results)
            /\ fetch' = [fetch EXCEPT !.pc = "done", !.loading = FALSE,
                                      !.stats = Some(Stats(fetch.kind, fetch.results))]
    /\ UNCHANGED <<storeVars, response, conn, storage, app, user, loading, login,
                   logout, mounted, primaryRole, issued, location, authenticated>>

\* The sessions of the seed's four users, and those of a Site Manager whose
\* assignment names no site and a Company Admin whose assignment names no
\* company (site_id and company_id are nullable).
FetchSessions ==
    { SessionUser(UserRow(ur.user_id, TRUE), << JoinedRole(ur) >>) :
        ur \in SeedUserRoles \cup
               { UserRoleRow("ur8", "amine@example.com", "Site Manager", "company1", Null, TRUE),
                 UserRoleRow("ur9", "admin@example.com", "Company Admin", Null, Null, TRUE) } }

\* A signed-in user on /dashboard, the role dashboard just mounted.
InitFetch ==
    /\ users = SeedUsers
    /\ user_roles = SeedUserRoles
    /\ clients = SeedClients
    /\ proposals = SeedProposals
    /\ sales = SeedSales
    /\ activity_logs = SeedLogs
    /\ response = NoResponse
    /\ conn \in ConnKeys
    /\ \E u \in FetchSessions :
          /\ user = Some(u)
          /\ storage = Some(Stringify(u))
          /\ authenticated = Some(u.id)
          /\ mounted = DashboardKind(u)
          /\ primaryRole = Some(PrimaryRole(u.roles))
          /\ issued = QueriesOf(DashboardKind(u), u)
    /\ app = "running"
    /\ loading = FALSE
    /\ login = IdleLogin
    /\ logout = IdleLogout
    /\ location = "/dashboard"
    /\ fetch = IdleFetch

NextFetch ==
    \/ FetchStart
    \/ \E i \in 1..6, o \in Outcomes : QuerySettle(i, o)
    \/ FetchJoin

SpecFetch == InitFetch /\ [][NextFetch]_vars

\* The same with what the runtime guarantees: the effect of a mounted
\* dashboard runs, and the continuation of a settled Promise.all runs. That a
\* request ever settles is not guaranteed.
SpecFetchLive == SpecFetch /\ WF_vars(FetchStart) /\ WF_vars(FetchJoin)

(***************************************************************************)
(* Spec: the AuthProvider and the Dashboard against the store              *)
(***************************************************************************)
LoginEmails ==
    {"soukaina@example.com", "amine@example.com", NewUser, "nobody@example.com"}
LoginPasswords == {"password123", "letmein"}

\* Further assignments a Super Admin may have given: a second and a third
\* role of one user (one of the same level as the seed's), one withdrawn.
ExtraUserRoles ==
    { UserRoleRow("ur5", "soukaina@example.com", "Site Manager", "company1", "site2", TRUE),
      UserRoleRow("ur6", "soukaina@example.com", "Commercial", "company1", "site2", TRUE),
      UserRoleRow("ur7", "soukaina@example.com", "Super Admin", Null, Null, FALSE) }

\* What localStorage may hold under 'user' when the page loads: nothing, the
\* record a previous login left, or content that is no JSON.
StoredAtStartup ==
    { None, Some(Garbage),
      Some(Stringify(SessionUser(UserRow("soukaina@example.com", TRUE),
            << JoinedRole(UserRoleRow("ur4", "soukaina@example.com", "Commercial",
                                      "company1", "site1", TRUE)) >>))) }

\* A record put under 'user' by hand: the session of the Super Admin, which
\* no login on this client produced.
EditedRecord ==
    Some(Stringify(SessionUser(UserRow("superadmin@example.com", TRUE),
            << JoinedRole(UserRoleRow("ur1", "superadmin@example.com", "Super Admin",
                                      Null, Null, TRUE)) >>)))

\* localStorage at page load with the identity last verified by password on
\* this client: a record a login left, or such a record edited since.
StartupSessions ==
    { <<st, IF st \in {None, Some(Garbage)} THEN None ELSE Some("soukaina@example.com")>> :
        st \in StoredAtStartup }
    \cup { <<EditedRecord, Some("soukaina@example.com")>> }

Init ==
    /\ users \in { {UserRow(e, e \notin off) : e \in UserIds} :
                      off \in {{}, {"amine@example.com"}} }
    /\ user_roles \in {SeedUserRoles \cup X : X \in SUBSET ExtraUserRoles}
    /\ clients = SeedClients
    /\ proposals = SeedProposals
    /\ sales = SeedSales
    /\ activity_logs = SeedLogs
    /\ response = NoResponse
    /\ conn \in ConnKeys
    /\ \E ss \in StartupSessions : storage = ss[1] /\ authenticated = ss[2]
    /\ app = "starting"
    /\ user = None
    /\ loading = TRUE
    /\ login = IdleLogin
    /\ logout = IdleLogout
    /\ mounted = "none"
    /\ primaryRole = None
    /\ issued = {}
    /\ location \in Paths
    /\ fetch = IdleFetch

Next ==
    \/ Startup
    \/ \E e \in LoginEmails, p \in LoginPasswords : LoginCall(e, p)
    \/ \E o \in Outcomes : LoginLookup(o)
    \/ LoginVerify
    \/ \E o \in Outcomes : LoginRoles(o)
    \/ \E o \in Outcomes : LoginLog(o)
    \/ LoginReturn
    \/ LogoutCall
    \/ \E o \in Outcomes : LogoutLog(o)
    \/ LogoutReturn
    \/ MountDashboard
    \/ \E path \in Paths : Visit(path)
    \/ NavigateStep

Spec == Init /\ [][Next]_vars

(***************************************************************************)
(* The visibility boundary of the primary assignment (Scope Resolver)      *)
(***************************************************************************)
ActiveAssignments(uid) ==
    {ur \in user_roles : SqlEq(ur.user_id, uid) /\ ur.is_active}

\* The assignments that can be the primary one: those of the minimum level.
PrimaryAssignments(uid) ==
    {a \in ActiveAssignments(uid) :
        \A b \in ActiveAssignments(uid) : RoleLevel(a.role_id) <= RoleLevel(b.role_id)}

\* Client.assigned_to, Proposal.created_by, Sale.closed_by
RowOwner(t, r) ==
    CASE t = "clients" -> r.assigned_to
      [] t = "proposals" -> r.created_by
      [] t = "sales" -> r.closed_by

\* Global (level 1), CompanyScoped (2), SiteScoped (3), SelfScoped (4)
InBoundary(pr, uid, t, r) ==
    CASE RoleLevel(pr.role_id) = 1 -> TRUE
      [] RoleLevel(pr.role_id) = 2 ->
            \E c \in ClientOf(t, r) : SqlEq(c.company_id, pr.company_id)
      [] RoleLevel(pr.role_id) = 3 ->
            \E c \in ClientOf(t, r) : SqlEq(c.site_id, pr.site_id)
      [] RoleLevel(pr.role_id) = 4 -> SqlEq(RowOwner(t, r), uid)

OnlyAssignmentIs(uid, role) ==
    /\ Cardinality(ActiveAssignments(uid)) = 1
    /\ \A a \in ActiveAssignments(uid) : a.role_id = role

(***************************************************************************)
(* Properties                                                              *)
(***************************************************************************)
SessionRoles == user[1].roles

\* C1: whenever the Dashboard has computed a primary role, it is one of the
\* session's roles and its level is at most the level of every role of the
\* session, in whatever order the roles are listed.
C1_PrimaryRoleIsMinimumLevel ==
    primaryRole # None =>
        /\ user # None
        /\ \E i \in 1..Len(SessionRoles) : SessionRoles[i] = primaryRole[1]
        /\ \A i \in 1..Len(SessionRoles) :
              primaryRole[1].role.level <= SessionRoles[i].role.level

\* C1 witness: a login listed a less privileged role first and the most
\* privileged one last, and the Dashboard computed the primary role.
C1_Witness ==
    /\ primaryRole # None
    /\ login.sessionSet
    /\ Len(SessionRoles) >= 2
    /\ SessionRoles[Len(SessionRoles)].role.level < SessionRoles[1].role.level

\* C2 (as claimed): the rows an unfiltered SELECT on clients, proposals or
\* sales returns to a caller are exactly the rows inside the boundary of the
\* caller's primary assignment.
C2_VisibleIffInPrimaryBoundary ==
    (response.kind = "select" /\ response.filter = NoFilter) =>
        \A pr \in PrimaryAssignments(response.by) :
            response.rows =
                {r \in TableRows(response.table) :
                    InBoundary(pr, response.by, response.table, r)}

\* C3 (as claimed): a committed proposal of a Commercial for a client at site
\* s of company c is in every proposals query of a Site Manager of s (with or
\* without the site filter) and in no proposals query of a caller whose only
\* active assignment is Company Admin of another company.
C3_SiteManagerSeesOtherCompanyDoesNot ==
    (response.kind = "select" /\ response.table = "proposals") =>
        \A p \in proposals, c \in clients :
            ( /\ c.id = p.client_id
              /\ c.site_id # Null
              /\ OnlyAssignmentIs(p.created_by, "Commercial") ) =>
                /\ ( /\ \E a \in ActiveAssignments(response.by) :
                          a.role_id = "Site Manager" /\ a.site_id = c.site_id
                     /\ response.filter \in
                          {NoFilter, [column |-> "site_id", value |-> c.site_id]} )
                   => p \in response.rows
                /\ ( /\ OnlyAssignmentIs(response.by, "Company Admin")
                     /\ \A a \in ActiveAssignments(response.by) :
                          a.company_id # c.company_id )
                   => p \notin response.rows

\* C4 (as claimed): every row a SELECT returns to a caller whose only active
\* assignment is Commercial is the caller's own (assigned to, created by or
\* closed by the caller).
C4_CommercialSeesOnlyOwnRows ==
    (response.kind = "select" /\ OnlyAssignmentIs(response.by, "Commercial")) =>
        \A r \in response.rows : SqlEq(RowOwner(response.table, r), response.by)

\* C5: a session without roles gets the "No Role Assigned" state, no role
\* dashboard is mounted for it and no query is issued on its behalf.
C5_NoRoleShortCircuits ==
    (user # None /\ Len(SessionRoles) = 0) =>
        /\ mounted \in {"none", "NoRole"}
        /\ primaryRole = None
        /\ issued = {}

\* C5 witness: a login resolved zero active assignments and the Dashboard
\* rendered for that session.
C5_Witness ==
    /\ user # None
    /\ login.sessionSet
    /\ Len(SessionRoles) = 0
    /\ mounted = "NoRole"

\* C6 (as claimed): an INSERT of a client at site s by a caller whose primary
\* assignment is Site Manager of s is accepted and the caller's next SELECT
\* on clients returns the new row.
C6_SiteScopedCreateThenFetch ==
    (response.kind = "insert" /\ response.table = "clients") =>
        \A row \in response.rows :
            (\E pr \in PrimaryAssignments(response.by) :
                pr.role_id = "Site Manager" /\ SqlEq(pr.site_id, row.site_id)) =>
                /\ response.ok
                /\ row \in SelectRows(response.by, "clients", NoFilter)

InvalidCredentials == "Invalid email or password"

\* C7: a login that fails because the e-mail is unknown, the user inactive
\* or the password wrong fails with the one error value "Invalid email or
\* password" and with no effect: no session in memory or in storage, no row.
C7_UniformLoginFailure ==
    (login.pc = "failed"
        /\ login.cause \in {"unknown_email", "inactive_user", "wrong_password"}) =>
        /\ login.error = InvalidCredentials
        /\ ~login.sessionSet
        /\ login.logged = 0
        /\ user = None
        /\ storage = None

\* C7 witness: a login of a known, active user failed on the password.
C7_Witness ==
    /\ login.pc = "failed"
    /\ login.cause = "wrong_password"
    /\ \E u \in users : u.email = login.email /\ u.is_active

\* C8 (as claimed): a login that has failed, for whatever reason, has set no
\* session in memory or in storage and appended no login row.
C8_FailedLoginLeavesNoSession ==
    login.pc = "failed" =>
        /\ ~login.sessionSet
        /\ user = None
        /\ storage = None
        /\ login.logged = 0

\* C9 (as claimed): a login that has returned successfully has set the
\* session and appended exactly one login row of the authenticated user.
C9_SuccessfulLoginIsLogged ==
    login.pc = "done" =>
        /\ login.sessionSet
        /\ login.logged = 1
        /\ \E i \in (Len(SeedLogs) + 1)..Len(activity_logs) :
              activity_logs[i] = LogRow(login.userData[1].id, "login", "auth")

\* C10 (as claimed): when a logout called with a session has cleared the
\* session, its logout row has been appended.
C10_LogoutRowBeforeClear ==
    (logout.pc = "done" /\ logout.user_id # Null) =>
        /\ logout.logged = 1
        /\ \E i \in (Len(SeedLogs) + 1)..Len(activity_logs) :
              activity_logs[i] = LogRow(logout.user_id, "logout", "auth")

\* C11 (as claimed): every logout call, with or without a session, settles
\* without an error and leaves the in-memory user null and the stored record
\* absent.
C11_LogoutIdempotent ==
    [][ (logout'.pc # logout.pc /\ logout'.pc \in {"done", "failed"}) =>
            /\ logout'.pc = "done"
            /\ user' = None
            /\ storage' = None ]_vars

\* C12 (as claimed): the startup effect ends with loading finished and never
\* with an error; the user is the stored record when it is well-formed, and
\* null when the record is absent or malformed.
C12_StartupRestoresOrLogsOut ==
    [][ (app = "starting" /\ app' # "starting") =>
            /\ app' = "running"
            /\ ~loading'
            /\ IF storage # None /\ storage[1].text = "json"
               THEN user' = storage[1].val
               ELSE user' = None ]_vars

\* C14 (as claimed): every login or logout row appended to activity_logs
\* carries the identity last verified by password on this client, whatever
\* the stored session record held at startup.
C14_LogRowsCarryAuthenticatedIdentity ==
    [][ Len(activity_logs') > Len(activity_logs) =>
            /\ authenticated' # None
            /\ activity_logs'[Len(activity_logs')].user_id = authenticated'[1] ]_vars

\* C18 (as claimed, in the form a finite run refutes): a login of an active
\* user with the matching password fails only when one of its requests
\* fails; the policies of the users table never block the lookup.
C18_ValidLoginNotBlockedByPolicies ==
    ( /\ login.pc = "failed"
      /\ \E u \in users : /\ u.email = login.email
                           /\ u.is_active
                           /\ BcryptCompare(login.password, u.password_hash) ) =>
        login.cause \in {"lookup_threw", "lookup_error", "roles_threw",
                         "roles_error", "insert_threw"}

\* C19: while loading (or before the effect has run) no route is rendered;
\* afterwards the routes follow the session: /dashboard renders the Dashboard
\* with a user and redirects to /login without one, /login renders the Login
\* page without a user and redirects to /dashboard with one, / redirects to
\* /dashboard with a user and to /login without one; a role dashboard is
\* mounted only while the Dashboard is rendered for a session user.
C19_RouteGuard ==
    /\ (loading \/ app # "running") => Rendered.render \in {"LoadingSpinner", "Nothing"}
    /\ (app = "running" /\ ~loading) =>
          /\ location = "/dashboard" =>
                Rendered = IF user # None THEN [render |-> "Dashboard", to |-> Null]
                           ELSE [render |-> "Navigate", to |-> "/login"]
          /\ location = "/login" =>
                Rendered = IF user # None THEN [render |-> "Navigate", to |-> "/dashboard"]
                           ELSE [render |-> "Login", to |-> Null]
          /\ location = "/" =>
                Rendered = IF user # None THEN [render |-> "Navigate", to |-> "/dashboard"]
                           ELSE [render |-> "Navigate", to |-> "/login"]
    /\ mounted # "none" => (Rendered.render = "Dashboard" /\ user # None /\ ~loading)

\* C19 witness: a role dashboard is mounted on /dashboard for a session that
\* a login on this page set.
C19_Witness ==
    /\ mounted \notin {"none", "NoRole"}
    /\ location = "/dashboard"
    /\ login.pc = "done"
    /\ user # None

\* The first position of the session's roles that holds the minimum level.
FirstMinimum(roles) ==
    CHOOSE k \in 1..Len(roles) :
        /\ \A j \in 1..Len(roles) : roles[k].role.level <= roles[j].role.level
        /\ \A j \in 1..(k - 1) : roles[j].role.level > roles[k].role.level

\* C20: when several assignments share the minimum level, the primary one is
\* the first of them in the session's list of roles.
C20_TieBreakFirstInList ==
    (user # None /\ primaryRole # None) =>
        primaryRole[1] = user[1].roles[FirstMinimum(user[1].roles)]

\* C20 witness: the primary role was computed for a session in which a later
\* role has the same, minimum, level as the primary one.
C20_Witness ==
    /\ user # None /\ primaryRole # None
    /\ \E j \in 1..Len(user[1].roles) :
          /\ user[1].roles[j] # primaryRole[1]
          /\ user[1].roles[j].role.level = primaryRole[1].role.level
          /\ j > FirstMinimum(user[1].roles)

\* The statements of a caller that write: an insert, an update or a delete.
IsCallerWrite(r) == r.kind \in {"insert", "update", "delete"} /\ r.by # "owner"

\* C13: a write through the API is accepted only where a policy grants it:
\* on users and user_roles to an active Super Admin, on no other table to
\* anyone; a denied write leaves every table as it was.
C13_WritesFailClosed ==
    [][ IsCallerWrite(response') =>
            /\ response'.ok =>
                  /\ response'.table \in {"users", "user_roles"}
                  /\ \E ur \in user_roles :
                        /\ ur.user_id = response'.by
                        /\ ur.role_id = "Super Admin"
                        /\ ur.is_active
            /\ ~response'.ok => UNCHANGED storeVars ]_vars

\* C13 witness: after a Super Admin's delete was accepted, a write of a
\* caller who holds no active assignment has been denied.
C13_Witness ==
    /\ response.kind \in {"insert", "update", "delete"}
    /\ response.by = NewUser
    /\ ~response.ok
    /\ ~\E ur \in user_roles : ur.user_id = NewUser
    /\ Cardinality(users) < Cardinality(SeedUsers) + 1

\* C16 (as claimed): no step removes a row of activity_logs or changes a
\* field of an existing row.
C16_ActivityLogAppendOnly ==
    [][ /\ Len(activity_logs') >= Len(activity_logs)
        /\ \A i \in 1..Len(activity_logs) : activity_logs'[i] = activity_logs[i] ]_vars

\* C15 (as claimed): when a query of the fetch has failed, by an error
\* result or by rejecting, the dashboard ends in the "Failed to load" panel
\* and publishes no statistics.
C15_FailedQueryShowsFailedToLoad ==
    ( /\ fetch.pc = "done"
      /\ \E i \in 1..Len(fetch.results) :
            fetch.results[i].state \in {"error", "throw"} ) =>
        /\ Panel = "Failed to load dashboard"
        /\ fetch.stats = None

\* What the store answers to the queries of the fetch, by position.
Answers ==
    LET qs == FetchQueries(fetch.kind, user[1], primaryRole[1])
    IN [i \in 1..Len(qs) |-> Settled(qs[i], fetch.results[i].state)]

AddedRole == [name |-> "Auditor", level |-> 5]

SessionRole(id, role, c, s) ==
    [id |-> id, is_active |-> TRUE, role |-> role, company |-> c, site |-> s]

\* The roles a session may list: each role of the catalog, a Company Admin
\* without company, a Site Manager without site, and the added role.
DashboardAssignments ==
    { SessionRole("a1", [name |-> "Super Admin", level |-> RoleLevel("Super Admin")], Null, Null),
      SessionRole("a2", [name |-> "Company Admin", level |-> RoleLevel("Company Admin")], "company1", Null),
      SessionRole("a3", [name |-> "Company Admin", level |-> RoleLevel("Company Admin")], Null, Null),
      SessionRole("a4", [name |-> "Site Manager", level |-> RoleLevel("Site Manager")], "company1", "site1"),
      SessionRole("a5", [name |-> "Site Manager", level |-> RoleLevel("Site Manager")], "company1", Null),
      SessionRole("a6", [name |-> "Commercial", level |-> RoleLevel("Commercial")], "company1", "site1"),
      SessionRole("a7", AddedRole, Null, Null) }

MaxSessionRoles == 2

DashboardSessions ==
    { SessionUser(UserRow("soukaina@example.com", TRUE), roles) :
        roles \in UNION { [1..n -> DashboardAssignments] : n \in 0..MaxSessionRoles } }

InitDashboard ==
    /\ users = SeedUsers
    /\ user_roles = SeedUserRoles
    /\ clients = SeedClients
    /\ proposals = SeedProposals
    /\ sales = SeedSales
    /\ activity_logs = SeedLogs
    /\ response = NoResponse
    /\ conn \in ConnKeys
    /\ \E u \in DashboardSessions :
          /\ user = Some(u)
          /\ storage = Some(Stringify(u))
          /\ authenticated = Some(u.id)
    /\ app = "running"
    /\ loading = FALSE
    /\ login = IdleLogin
    /\ logout = IdleLogout
    /\ mounted = "none"
    /\ primaryRole = None
    /\ issued = {}
    /\ location \in Paths
    /\ fetch = IdleFetch

NextDashboard ==
    \/ MountDashboard
    \/ \E path \in Paths : Visit(path)
    \/ NavigateStep

SpecDashboard == InitDashboard /\ [][NextDashboard]_vars

\* The level of the data a role dashboard asks for: all rows, the rows of a
\* company, of a site, of the user; the remaining views ask for none.
DashboardLevel(kind) ==
    CASE kind = "SuperAdmin" -> 1
      [] kind = "CompanyAdmin" -> 2
      [] kind = "SiteManager" -> 3
      [] kind = "Commercial" -> 4
      [] OTHER -> 5

\* C21: the dashboard mounted for a primary role of the catalog is the one of
\* that role's level; a primary role of any other name mounts the "Unknown
\* Role" view, which issues no query; and the dashboard mounted is never one
\* of a more privileged level than the primary role's.
C21_DashboardMatchesLevel ==
    (mounted \notin {"none", "NoRole"} /\ primaryRole # None) =>
        LET r == primaryRole[1].role
        IN /\ (r.name \in RoleNames => DashboardLevel(mounted) = r.level)
           /\ (r.name \notin RoleNames => (mounted = "UnknownRole" /\ issued = {}))
           /\ DashboardLevel(mounted) >= r.level

C21_Witness ==
    /\ mounted = "SiteManager"
    /\ primaryRole # None
    /\ primaryRole[1].role.level = 3
    /\ Len(user[1].roles) = 2

\* C22: every query a Company Admin dashboard issues is restricted to the
\* primary assignment's company, every query of a Site Manager dashboard to
\* its site, every query of a Commercial dashboard to the user's own id.
C22_IssuedQueriesRestricted ==
    /\ mounted = "CompanyAdmin" =>
          \A q \in issued :
              /\ q.column \in {"company_id", "client.company_id", "proposal.client.company_id"}
              /\ q.value = primaryRole[1].company
    /\ mounted = "SiteManager" =>
          \A q \in issued :
              /\ q.column \in {"site_id", "client.site_id", "proposal.client.site_id"}
              /\ q.value = primaryRole[1].site
    /\ mounted = "Commercial" =>
          \A q \in issued :
              /\ q.column \in {"closed_by", "created_by", "assigned_to"}
              /\ q.value = user[1].id

\* C25: once startup has finished, the in-memory user is set exactly when
\* localStorage holds a record under 'user', and that record is then the
\* serialisation of the in-memory user.
C25_SessionConsistency ==
    (app = "running" /\ ~loading) =>
        /\ (user # None) <=> (storage # None)
        /\ user # None => storage = Some(Stringify(user[1]))

\* a second login on the same AuthProvider, after a logout, has set the session
C25_Witness ==
    /\ app = "running"
    /\ login.pc = "done" /\ login.sessionSet
    /\ user # None
    /\ storage = Some(Stringify(user[1]))
    /\ \E i \in 1..Len(activity_logs) :
          i > Len(SeedLogs) /\ activity_logs[i].action = "logout"

\* C29: a logout call made with a session ends the session: when its insert
\* of the 'logout' row has settled (accepted, denied, answered with an error
\* or rejected), the in-memory user is null and the stored record is absent.
C29_LogoutEndsSession ==
    [][ (logout.pc = "log" /\ logout'.pc # "log") =>
            (user' = None /\ storage' = None) ]_vars

(***************************************************************************)
(* The sales pipeline: clients, proposals, sales and their foreign keys    *)
(***************************************************************************)
\* Rows a statement may try to insert: with an existing parent, with a
\* parent id that no row has, and with no parent (the columns client_id and
\* proposal_id are declared without NOT NULL).
PipelineProposalRows ==
    { ProposalRow("proposal5", c, "soukaina@example.com", 75000, "pending") :
        c \in {"client1", "client9", Null} }

PipelineSaleRows ==
    { SaleRow("sale3", p, "soukaina@example.com", 75000, Some(7500)) :
        p \in {"proposal1", "proposal5", "proposal9", Null} }

\* DELETE FROM clients WHERE id = ...: proposals of the client go with it
\* (ON DELETE CASCADE), and the sales of those proposals with them.
OwnerDeleteClient(id) ==
    /\ id \in {c.id : c \in clients}
    /\ clients' = {c \in clients : c.id # id}
    /\ proposals' = {p \in proposals : p.client_id # id}
    /\ sales' = {s \in sales :
                    \A p \in proposals : p.client_id = id => s.proposal_id # p.id}
    /\ response' = WriteResponse("delete", "owner", "clients", TRUE)
    /\ UNCHANGED <<users, user_roles, activity_logs, authVars>>

\* DELETE FROM proposals WHERE id = ...: its sales go with it.
OwnerDeleteProposal(id) ==
    /\ id \in {p.id : p \in proposals}
    /\ proposals' = {p \in proposals : p.id # id}
    /\ sales' = {s \in sales : s.proposal_id # id}
    /\ response' = WriteResponse("delete", "owner", "proposals", TRUE)
    /\ UNCHANGED <<users, user_roles, clients, activity_logs, authVars>>

NextPipeline ==
    \/ \E row \in NewClientRows : OwnerInsertClient(row)
    \/ \E row \in PipelineProposalRows : OwnerInsertProposal(row)
    \/ \E row \in PipelineSaleRows : OwnerInsertSale(row)
    \/ \E id \in {c.id : c \in SeedClients \cup NewClientRows} : OwnerDeleteClient(id)
    \/ \E id \in {p.id : p \in SeedProposals \cup PipelineProposalRows} : OwnerDeleteProposal(id)

SpecPipeline == InitStore /\ [][NextPipeline]_vars

\* C23: in every store state every sale references an existing proposal and
\* every proposal an existing client.
C23_PipelineIntegrity ==
    /\ \A s \in sales : \E p \in proposals : p.id = s.proposal_id
    /\ \A p \in proposals : \E c \in clients : c.id = p.client_id

\* Some query of the running fetch has not settled / has been rejected.
SomePending == \E i \in 1..Len(fetch.results) : fetch.results[i].state = "pending"
SomeThrown == \E i \in 1..Len(fetch.results) : fetch.results[i].state = "throw"

\* C24 (as claimed): the view stays in the loading state as long as one query
\* of the fetch has not completed, and leaves it once all have settled.
C24_LoadingEndsExactlyWhenSettled ==
    /\ []((fetch.pc # "idle" /\ SomePending) => fetch.loading)
    /\ ((fetch.pc # "idle" /\ ~SomePending) ~> ~fetch.loading)

\* C24 (amended): the view leaves the loading state once every query has
\* settled or one query has been rejected, whatever the others have done;
\* while a query is pending and none has been rejected it stays loading.
C24_LoadingEndsWhenSettledOrRejected ==
    /\ []((fetch.pc # "idle" /\ SomePending /\ ~SomeThrown) => fetch.loading)
    /\ ((fetch.pc # "idle" /\ (~SomePending \/ SomeThrown)) ~> ~fetch.loading)

\* the catch block has ended the loading state while a query is still out
C24_Witness ==
    /\ fetch.pc = "done"
    /\ ~fetch.loading
    /\ SomePending /\ SomeThrown

\* C26: a Site Manager dashboard whose assignment has no site, and a Company
\* Admin dashboard whose assignment has no company, issues no query and
\* comes to show "No site assigned" / "No company assigned".
C26_UnassignedShowsNotice ==
    /\ []((mounted = "SiteManager" /\ primaryRole # None /\ primaryRole[1].site = Null)
            => (issued = {} /\ fetch.pc = "idle"))
    /\ []((mounted = "CompanyAdmin" /\ primaryRole # None /\ primaryRole[1].company = Null)
            => (issued = {} /\ fetch.pc = "idle"))
    /\ ((mounted = "SiteManager" /\ primaryRole # None /\ primaryRole[1].site = Null)
            ~> (Panel = "No site assigned"))
    /\ ((mounted = "CompanyAdmin" /\ primaryRole # None /\ primaryRole[1].company = Null)
            ~> (Panel = "No company assigned"))

(***************************************************************************)
(* fetchSiteData: the statistics of any returned sales and proposals       *)
(***************************************************************************)
MaxSaleRows == 6

\* closed_by of the returned sales: users of the site, NULL once the closing
\* user has been deleted (ON DELETE SET NULL)
Closers ==
    << "soukaina@example.com", "amine@example.com", Null, "admin@example.com",
       "superadmin@example.com", NewUser, "user7", "user8" >>

\* The k-th returned sale: closed by a further user or by the first one, with
\* or without a commission.
SaleShapes(k) ==
    { [closed_by |-> Closers[k], amount |-> 100, commission |-> None],
      [closed_by |-> Closers[k], amount |-> 200, commission |-> Some(10)],
      [closed_by |-> Closers[1], amount |-> 100, commission |-> Some(10)],
      [closed_by |-> Closers[1], amount |-> 200, commission |-> None] }

RECURSIVE SalesDataOfLen(_)
SalesDataOfLen(n) ==
    IF n = 0 THEN { << >> }
    ELSE { Append(d, r) : d \in SalesDataOfLen(n - 1), r \in SaleShapes(n) }

\* salesResult: { data } with up to MaxSaleRows sales, or { error }
SalesResults ==
    { [state |-> "ok", rows |-> d] : d \in UNION { SalesDataOfLen(n) : n \in 0..MaxSaleRows } }
    \cup { [state |-> "error", rows |-> << >>] }

\* proposalsResult: { data, count } of some of the site's proposals, or { error }
ProposalsResults ==
    { [state |-> "ok", rows |-> P] :
        P \in SUBSET { ProposalRow("proposal1", "client1", "soukaina@example.com", 150000, "closed"),
                       ProposalRow("proposal2", "client2", "soukaina@example.com", 75000, "closed"),
                       ProposalRow("proposal3", "client3", "amine@example.com", 300000, "pending") } }
    \cup { [state |-> "error", rows |-> {}] }

\* The Site Manager's fetch with every query settled, Promise.all about to
\* resume.
InitSiteStats ==
    /\ users = SeedUsers
    /\ user_roles = SeedUserRoles
    /\ clients = SeedClients
    /\ proposals = SeedProposals
    /\ sales = SeedSales
    /\ activity_logs = SeedLogs
    /\ response = NoResponse
    /\ conn = "service_role"
    /\ LET ur == UserRoleRow("ur3", "amine@example.com", "Site Manager", "company1", "site1", TRUE)
           u == SessionUser(UserRow("amine@example.com", TRUE), << JoinedRole(ur) >>)
       IN /\ user = Some(u)
          /\ storage = Some(Stringify(u))
          /\ authenticated = Some(u.id)
          /\ mounted = DashboardKind(u)
          /\ primaryRole = Some(PrimaryRole(u.roles))
          /\ issued = QueriesOf(DashboardKind(u), u)
    /\ app = "running"
    /\ loading = FALSE
    /\ login = IdleLogin
    /\ logout = IdleLogout
    /\ location = "/dashboard"
    /\ \E sr \in SalesResults, pr \in ProposalsResults :
          fetch = [pc |-> "awaiting", kind |-> "SiteManager",
                   results |-> << [state |-> "ok", rows |-> {}], sr, pr,
                                  [state |-> "ok", rows |-> << >>],
                                  [state |-> "ok", rows |-> {}] >>,
                   stats |-> None, loading |-> TRUE, outOfOrder |-> FALSE]

\* The statistics fetchSiteData derives from salesResult and proposalsResult
SiteStats(res) ==
    [totalProposals |-> CountOrZero(res[3]),
     conversionRate |-> ConversionRate(res[3]),
     topPerformers |-> TopPerformersOf(ListOrEmpty(res[2]))]

SiteStatsJoin ==
    /\ fetch.pc = "awaiting"
    /\ fetch' = [fetch EXCEPT !.pc = "done", !.loading = FALSE,
                              !.stats = Some(SiteStats(fetch.results))]
    /\ UNCHANGED <<storeVars, response, conn, storage, app, user, loading, login,
                   logout, mounted, primaryRole, issued, location, authenticated>>

NextSiteStats == SiteStatsJoin

SpecSiteStats == InitSiteStats /\ [][NextSiteStats]_vars

\* The sum of the amounts, and of the commissions with a missing commission
\* counted as 0, of the sales of data closed by w
RECURSIVE AmountOf(_, _, _)
AmountOf(data, w, i) ==
    IF i > Len(data) THEN 0
    ELSE (IF data[i].closed_by = w THEN data[i].amount ELSE 0) + AmountOf(data, w, i + 1)

RECURSIVE CommissionOf(_, _, _)
CommissionOf(data, w, i) ==
    IF i > Len(data) THEN 0
    ELSE (IF data[i].closed_by = w /\ data[i].commission # None
          THEN data[i].commission[1] ELSE 0) + CommissionOf(data, w, i + 1)

\* C30: the top performers computed from the returned sales are at most 5
\* entries, one per distinct closed_by, in non-increasing order of sales, each
\* with the sum of the user's amounts and of the user's commissions (missing
\* counted as 0), and no user left out has a larger sales total than a listed
\* one; the conversion rate is 0 without proposals and otherwise the closed
\* proposals over the proposal count times 100, between 0 and 100.
C30_TopPerformersAndConversionRate ==
    (fetch.pc = "done" /\ fetch.stats # None) =>
        LET data == fetch.results[2].rows
            props == fetch.results[3].rows
            top == fetch.stats[1].topPerformers
            rate == fetch.stats[1].conversionRate
            closers == {data[i].closed_by : i \in 1..Len(data)}
            listed == {top[k].userId : k \in 1..Len(top)}
            closed == Cardinality({p \in props : p.status = "closed"})
            count == Cardinality(props)
        IN /\ Len(top) <= 5
           /\ listed \subseteq closers
           /\ \A j, k \in 1..Len(top) : top[j].userId = top[k].userId => j = k
           /\ \A k \in 1..(Len(top) - 1) : top[k].sales >= top[k + 1].sales
           /\ \A k \in 1..Len(top) :
                 /\ top[k].sales = AmountOf(data, top[k].userId, 1)
                 /\ top[k].commission = CommissionOf(data, top[k].userId, 1)
           /\ \A w \in closers \ listed, k \in 1..Len(top) :
                 AmountOf(data, w, 1) <= top[k].sales
           /\ count = 0 => rate[1] = 0
           /\ count # 0 => (rate[1] = closed * 100 /\ rate[2] = count)
           /\ 0 <= rate[1] /\ rate[1] <= 100 * rate[2]

\* six users closed sales, one of them left out of the five listed; a sale
\* without commission was counted; some but not all proposals are closed
C30_Witness ==
    /\ fetch.pc = "done" /\ fetch.stats # None
    /\ Len(fetch.stats[1].topPerformers) = 5
    /\ Cardinality({fetch.results[2].rows[i].closed_by :
                      i \in 1..Len(fetch.results[2].rows)}) = 6
    /\ \E i \in 1..Len(fetch.results[2].rows) :
          /\ fetch.results[2].rows[i].commission = None
          /\ \E k \in 1..5 :
                fetch.stats[1].topPerformers[k].userId = fetch.results[2].rows[i].closed_by
    /\ fetch.stats[1].topPerformers[1].sales > fetch.stats[1].topPerformers[5].sales
    /\ fetch.stats[1].conversionRate[1] > 0
    /\ fetch.stats[1].conversionRate[1] < 100 * fetch.stats[1].conversionRate[2]

(***************************************************************************)
(* A session over time: reloads of the page and changes of the store made  *)
(* by an administrator while a user is signed in                           *)
(***************************************************************************)
\* The page is loaded again: memory is lost, in-flight calls are abandoned,
\* localStorage and the location stay; the startup effect will run.
Reload ==
    /\ app = "running"
    /\ app' = "starting"
    /\ user' = None
    /\ loading' = TRUE
    /\ login' = IdleLogin
    /\ logout' = IdleLogout
    /\ mounted' = "none"
    /\ primaryRole' = None
    /\ issued' = {}
    /\ UNCHANGED <<storeVars, response, conn, storage, location, authenticated, fetch>>

\* UPDATE users SET is_active = false WHERE id = ...
DeactivateUser(id) ==
    /\ \E u \in users : u.id = id /\ u.is_active
    /\ users' = {IF u.id = id THEN [u EXCEPT !.is_active = FALSE] ELSE u : u \in users}
    /\ response' = WriteResponse("update", "owner", "users", TRUE)
    /\ UNCHANGED <<user_roles, clients, proposals, sales, activity_logs, authVars>>

\* UPDATE user_roles SET is_active = false WHERE id = ...
DeactivateAssignment(id) ==
    /\ \E ur \in user_roles : ur.id = id /\ ur.is_active
    /\ user_roles' = {IF ur.id = id THEN [ur EXCEPT !.is_active = FALSE] ELSE ur :
                         ur \in user_roles}
    /\ response' = WriteResponse("update", "owner", "user_roles", TRUE)
    /\ UNCHANGED <<users, clients, proposals, sales, activity_logs, authVars>>

\* INSERT INTO user_roles ...
AssignRole(row) ==
    /\ row.id \notin {ur.id : ur \in user_roles}
    /\ user_roles' = user_roles \cup {row}
    /\ response' = WriteResponse("insert", "owner", "user_roles", TRUE)
    /\ UNCHANGED <<users, clients, proposals, sales, activity_logs, authVars>>

\* DELETE FROM user_roles WHERE id = ... AND NOT is_active
RemoveInactiveAssignment(id) ==
    /\ \E ur \in user_roles : ur.id = id /\ ~ur.is_active
    /\ user_roles' = {ur \in user_roles : ur.id # id}
    /\ response' = WriteResponse("delete", "owner", "user_roles", TRUE)
    /\ UNCHANGED <<users, clients, proposals, sales, activity_logs, authVars>>

\* The user who signs in, and the assignments of that user that change.
SessionEmails == {"soukaina@example.com"}
ChangingAssignments == {"ur4", "ur5", "ur7"}
AssignableRows == {ur \in ExtraUserRoles : ur.id = "ur5"}

InitSession ==
    /\ users = SeedUsers
    /\ user_roles = SeedUserRoles \cup {ur \in ExtraUserRoles : ur.id = "ur7"}
    /\ clients = SeedClients
    /\ proposals = SeedProposals
    /\ sales = SeedSales
    /\ activity_logs = SeedLogs
    /\ response = NoResponse
    /\ conn = "service_role"
    /\ storage = None
    /\ authenticated = None
    /\ app = "starting"
    /\ user = None
    /\ loading = TRUE
    /\ login = IdleLogin
    /\ logout = IdleLogout
    /\ mounted = "none"
    /\ primaryRole = None
    /\ issued = {}
    /\ location = "/"
    /\ fetch = IdleFetch

NextSession ==
    \/ Startup
    \/ Reload
    \/ \E e \in SessionEmails : LoginCall(e, "password123")
    \/ \E o \in Outcomes : LoginLookup(o)
    \/ LoginVerify
    \/ \E o \in Outcomes : LoginRoles(o)
    \/ \E o \in Outcomes : LoginLog(o)
    \/ LoginReturn
    \/ LogoutCall
    \/ \E o \in Outcomes : LogoutLog(o)
    \/ LogoutReturn
    \/ MountDashboard
    \/ NavigateStep
    \/ \E id \in SessionEmails : DeactivateUser(id)
    \/ \E id \in ChangingAssignments : DeactivateAssignment(id)
    \/ \E row \in AssignableRows : AssignRole(row)
    \/ \E id \in ChangingAssignments : RemoveInactiveAssignment(id)

SpecSession == InitSession /\ [][NextSession]_vars

\* The store changes and a login alone
NextAssignments ==
    \/ Startup
    \/ \E e \in SessionEmails : LoginCall(e, "password123")
    \/ \E o \in Outcomes : LoginLookup(o)
    \/ LoginVerify
    \/ \E o \in Outcomes : LoginRoles(o)
    \/ \E o \in Outcomes : LoginLog(o)
    \/ LoginReturn
    \/ \E id \in SessionEmails : DeactivateUser(id)
    \/ \E id \in ChangingAssignments : DeactivateAssignment(id)
    \/ \E row \in AssignableRows : AssignRole(row)
    \/ \E id \in ChangingAssignments : RemoveInactiveAssignment(id)

SpecAssignments == InitSession /\ [][NextAssignments]_vars

\* A step that belongs to no login or logout call: a reload, the startup
\* effect, routing, mounting, a change of the store.
NoSessionCallStep ==
    \/ app' # app
    \/ (login'.pc = login.pc /\ logout'.pc = logout.pc)

\* C27: the session is the snapshot taken at login. No step other than those
\* of a login or logout call changes the stored record or the in-memory
\* user; the user a reload restores is the one the record serialises; and
\* the dashboard mounted and its primary role are those of the session's own
\* list of roles, whatever the store has become.
C27_SessionIsSnapshot ==
    /\ [][ NoSessionCallStep =>
              /\ storage' = storage
              /\ (user # None /\ user' # None) => user' = user ]_vars
    /\ []((app = "running" /\ user # None) => storage = Some(Stringify(user[1])))
    /\ [](mounted # "none" =>
              /\ user # None
              /\ mounted = DashboardKind(user[1])
              /\ primaryRole = IF Len(user[1].roles) = 0 THEN None
                               ELSE Some(PrimaryRole(user[1].roles)))

\* signed in with the dashboard mounted, after the user has been deactivated
\* and the user's assignments in the store are no longer those of the session
C27_Witness ==
    /\ app = "running" /\ user # None
    /\ login.pc = "idle" /\ logout.pc = "idle"
    /\ mounted = "Commercial"
    /\ \E u \in users : u.id = user[1].id /\ ~u.is_active
    /\ {user[1].roles[k].id : k \in 1..Len(user[1].roles)} = {"ur4"}
    /\ {ur.id : ur \in RolesRows(user[1].id)} = {"ur5"}

\* What the policies grant a caller: the rows of each table the caller may
\* read, and whether the caller may write users and user_roles.
Grants(uid) ==
    [users |-> {u.id : u \in {x \in users : UsersSelect(uid, x)}},
     user_roles |-> {ur.id : ur \in {x \in user_roles : UserRolesSelect(uid, x)}},
     companies |-> {x \in SeedCompanies : CompaniesSelect(uid, x)},
     sites |-> {x \in SeedSites : SitesSelect(uid, x)},
     clients |-> {x \in clients : ClientsSelect(uid, x)},
     proposals |-> {x \in proposals : ProposalsSelect(uid, x)},
     sales |-> {x \in sales : SalesSelect(uid, x)},
     activity_logs |-> {i \in 1..Len(activity_logs) :
                           ActivityLogsSelect(uid, activity_logs[i])},
     users_write |-> UsersWrite(uid),
     user_roles_write |-> UserRolesWrite(uid)]

\* C28: an inactive assignment grants nothing. Removing an inactive
\* assignment from the store changes for no caller what can be read or
\* written (but for the removed row itself), and the roles a login puts in
\* the session are active assignments of the store.
C28_InactiveAssignmentGrantsNothing ==
    /\ [][ \A a \in user_roles :
              (~a.is_active /\ user_roles' = user_roles \ {a}) =>
                  \A uid \in Callers :
                      Grants(uid)' = [Grants(uid) EXCEPT !.user_roles = @ \ {a.id}] ]_vars
    /\ [][ (login.pc = "roles" /\ login'.pc = "log") =>
              \A k \in 1..Len(user'[1].roles) :
                  \E a \in user_roles :
                      a.id = user'[1].roles[k].id /\ a.is_active ]_vars

\* an inactive Super Admin assignment and an inactive Commercial assignment
\* of the user are in the store when the user's login sets the session
C28_Witness ==
    /\ login.pc = "log" /\ login.sessionSet
    /\ user # None
    /\ \E a \in user_roles :
          a.user_id = user[1].id /\ ~a.is_active /\ a.role_id = "Super Admin"
    /\ \E a \in user_roles :
          a.user_id = user[1].id /\ ~a.is_active /\ a.role_id = "Commercial"
    /\ Len(user[1].roles) = 1

====
